---- MODULE Spec2Model ----
(***************************************************************************)
(* Model of the presence hub of openmap (main.go): the Hub goroutine        *)
(* (Hub.run), the per-connection handler (handleWebSocket) and the two      *)
(* pumps of every client (readPump, writePump).                             *)
(*                                                                          *)
(* Go channels are modelled by their semantics:                             *)
(*   - register, unregister and broadcast are unbuffered: a send completes  *)
(*     only in a rendezvous with the Hub parked in its select               *)
(*     (hubpc = "select");                                                  *)
(*   - client.Send is buffered: a sequence of at most SendCap frames plus   *)
(*     a closed flag;                                                       *)
(*   - `select { case ch <- v: default: }` sends when the send can proceed  *)
(*     at once and takes the default branch otherwise;                      *)
(*   - a send on a closed channel and a second close panic.                 *)
(* Each step that runs under h.mutex is one atomic action.                  *)
(***************************************************************************)
EXTENDS Integers, Sequences, FiniteSets, TLC

\* ---------------------------------------------------------------- bounds
\* Capacity of client.Send. The program uses 256 (main.go:267); the model
\* checks the same code with a small capacity so that a full queue is reached.
SendCap == 2

\* Number of location_update frames the read pumps accept in one run.
MaxUpdates == 3

\* The connections of a run: each is accepted at most once (a client ID is a
\* fresh UUID). They are named in the order in which they are accepted.
Clients == {"c1", "c2", "c3"}

\* The connections that arrive in a run of Spec.
Arrivals == {"c1", "c2"}

Earlier(c) ==
    CASE c = "c1" -> {}
      [] c = "c2" -> {"c1"}
      [] OTHER -> {"c1", "c2"}

\* The usernames a query parameter may carry.
Users == {"alice", "bob"}

NoClient == "none"

\* ---------------------------------------------------------------- data
\* LocationData: the n-th location a run reports (the web client stamps
\* every report with the time of sending).
Position(n) == [latitude |-> 35 + n, longitude |-> 135 + n, timestamp |-> 1000 * n]

LocationData(u, p) ==
    [username |-> u, latitude |-> p.latitude, longitude |-> p.longitude,
     timestamp |-> p.timestamp]

\* Message{Type, Data}
Message(t, d) == [type |-> t, data |-> d]

NoMessage == Message("none", "none")

UserConnected(u) ==
    Message("user_connected", [username |-> u, message |-> <<u, "connected">>])

UserDisconnected(u) ==
    Message("user_disconnected", [username |-> u, message |-> <<u, "disconnected">>])

LocationUpdate(rec) == Message("location_update", rec)

CurrentLocations(locs) == Message("current_locations", locs)

\* websocket.CloseMessage with an empty payload
CloseMessage == Message("close", "none")

\* Frames a connection may deliver to ReadMessage: text that is no JSON
\* envelope, an envelope of another type, a location_update whose data does
\* not decode into LocationData, and well-formed location_update frames
\* (whose data.username is whatever the sender wrote).
Frame(j, t, ok, d) == [json |-> j, type |-> t, payloadok |-> ok, data |-> d]

NoData == LocationData("", Position(0))

Frames(n) ==
    { Frame(FALSE, "none", FALSE, NoData),
      Frame(TRUE, "chat", TRUE, NoData),
      Frame(TRUE, "location_update", FALSE, NoData) }
    \cup
    { Frame(TRUE, "location_update", TRUE, LocationData(u, Position(n))) : u \in Users }

EmptyMap == [u \in {} |-> u]

\* h.locations[username] = location
MapPut(m, k, v) == [x \in (DOMAIN m) \cup {k} |-> IF x = k THEN v ELSE m[x]]

\* delete(h.locations, username)
MapDelete(m, k) == [x \in (DOMAIN m) \ {k} |-> m[x]]

\* ---------------------------------------------------------------- state
VARIABLES
    clients,     \* h.clients: the active set
    locations,   \* h.locations: the PresenceStore
    Username,    \* Client.Username of every created client
    Send,        \* contents of client.Send
    closed,      \* client.Send has been closed
    hubpc,       \* position of Hub.run
    hubcur,      \* the client Hub.run received from register / unregister
    hubmsg,      \* the message Hub.run received from broadcast
    hpc,         \* position of handleWebSocket for each connection
    rpc,         \* position of readPump
    wpc,         \* position of writePump
    pending,     \* the location readPump is passing to updateLocation
    nupd,        \* location updates accepted so far
    wire,        \* the last frame writePump passed to c.Conn.WriteMessage
    nsnap,       \* history: current_locations frames enqueued for each client
    stored,      \* history: every <<key, record>> written to h.locations so far
    view         \* the `users` map of the web client at the other end of each connection

vars == <<clients, locations, Username, Send, closed, hubpc, hubcur, hubmsg,
          hpc, rpc, wpc, pending, nupd, wire, nsnap, stored, view>>

\* newHub(), before any connection is accepted
Init ==
    /\ clients = {}
    /\ locations = EmptyMap
    /\ Username = [c \in Clients |-> "none"]
    /\ Send = [c \in Clients |-> << >>]
    /\ closed = [c \in Clients |-> FALSE]
    /\ hubpc = "select"
    /\ hubcur = NoClient
    /\ hubmsg = NoMessage
    /\ hpc = [c \in Clients |-> "idle"]
    /\ rpc = [c \in Clients |-> "none"]
    /\ wpc = [c \in Clients |-> "none"]
    /\ pending = [c \in Clients |-> NoData]
    /\ nupd = 0
    /\ wire = [c \in Clients |-> NoMessage]
    /\ nsnap = [c \in Clients |-> 0]
    /\ stored = {}
    /\ view = [c \in Clients |-> EmptyMap]

\* ------------------------------------------------------- channel helpers
\* Hub.run is parked in its select: the only state in which a send on one of
\* the unbuffered channels register / unregister / broadcast can proceed.
ReceiverParked == hubpc = "select"

\* `case client.Send <- message:` can proceed (the channel is open, with room)
CanSend(c) == ~closed[c] /\ Len(Send[c]) < SendCap

\* ------------------------------------------------------- handleWebSocket
\* upgrade, read the username, build the Client with an empty Send channel;
\* the handler then blocks in `hub.register <- client`.
Accept(c, u) ==
    /\ hpc[c] = "idle"
    /\ \A d \in Earlier(c) : hpc[d] # "idle"
    /\ Username' = [Username EXCEPT ![c] = u]
    /\ Send' = [Send EXCEPT ![c] = << >>]
    /\ hpc' = [hpc EXCEPT ![c] = "registering"]
    /\ UNCHANGED <<clients, locations, closed, hubpc, hubcur, hubmsg, rpc, wpc,
                   pending, nupd, wire, nsnap, stored, view>>

\* ------------------------------------------------------------- Hub.run
\* `case client := <-h.register:` the rendezvous with a blocked handler,
\* which goes on to start the two pumps.
HubRecvRegister(c) ==
    /\ ReceiverParked
    /\ hpc[c] = "registering"
    /\ hubpc' = "register"
    /\ hubcur' = c
    /\ hpc' = [hpc EXCEPT ![c] = "done"]
    /\ rpc' = [rpc EXCEPT ![c] = "read"]
    /\ wpc' = [wpc EXCEPT ![c] = "run"]
    /\ UNCHANGED <<clients, locations, Username, Send, closed, hubmsg, pending, nupd,
                   wire, nsnap, stored, view>>

\* Variant of HubAddClient that also files a placeholder record for the new
\* client's username.
HubAddClient_Placeholder ==
    /\ hubpc = "register"
    /\ clients' = clients \cup {hubcur}
    /\ locations' = MapPut(locations, Username[hubcur],
                           LocationData(Username[hubcur], Position(0)))
    /\ hubpc' = "snapshot"
    /\ UNCHANGED <<Username, Send, closed, hubcur, hubmsg, hpc, rpc, wpc,
                   pending, nupd, wire, nsnap, stored, view>>

\* h.mutex.Lock(); h.clients[client] = true; h.mutex.Unlock()
HubAddClient ==
    /\ hubpc = "register"
    /\ clients' = clients \cup {hubcur}
    /\ hubpc' = "snapshot"
    /\ UNCHANGED <<locations, Username, Send, closed, hubcur, hubmsg, hpc, rpc, wpc,
                   pending, nupd, wire, nsnap, stored, view>>

\* Variant of HubSendCurrentLocations with the emptiness test inverted
\* (`len(h.locations) == 0`).
HubSendCurrentLocations_Inverted ==
    /\ hubpc = "snapshot"
    /\ IF DOMAIN locations # {}
       THEN /\ hubpc' = "notify"
            /\ UNCHANGED <<Send, closed, nsnap>>
       ELSE IF CanSend(hubcur)
       THEN /\ Send' = [Send EXCEPT ![hubcur] = Append(@, CurrentLocations(locations))]
            /\ nsnap' = [nsnap EXCEPT ![hubcur] = @ + 1]
            /\ hubpc' = "notify"
            /\ UNCHANGED closed
       ELSE /\ closed' = [closed EXCEPT ![hubcur] = TRUE]
            /\ hubpc' = "notify"
            /\ UNCHANGED <<Send, nsnap>>
    /\ UNCHANGED <<clients, locations, Username, hubcur, hubmsg, hpc, rpc, wpc,
                   pending, nupd, wire, stored, view>>

\* Variant of HubSendCurrentLocations that enqueues the snapshot twice.
HubSendCurrentLocations_Twice ==
    /\ hubpc = "snapshot"
    /\ IF DOMAIN locations = {}
       THEN /\ hubpc' = "notify"
            /\ UNCHANGED <<Send, closed, nsnap>>
       ELSE /\ Send' = [Send EXCEPT ![hubcur] =
                          Append(Append(@, CurrentLocations(locations)),
                                 CurrentLocations(locations))]
            /\ nsnap' = [nsnap EXCEPT ![hubcur] = @ + 2]
            /\ hubpc' = "notify"
            /\ UNCHANGED closed
    /\ UNCHANGED <<clients, locations, Username, hubcur, hubmsg, hpc, rpc, wpc,
                   pending, nupd, wire, stored, view>>

\* h.sendCurrentLocations(client), under RLock
HubSendCurrentLocations ==
    /\ hubpc = "snapshot"
    /\ IF DOMAIN locations = {}
       THEN /\ hubpc' = "notify"
            /\ UNCHANGED <<Send, closed, nsnap>>
       ELSE IF closed[hubcur]
       THEN \* send on a closed channel
            /\ hubpc' = "panic"
            /\ UNCHANGED <<Send, closed, nsnap>>
       ELSE IF CanSend(hubcur)
       THEN /\ Send' = [Send EXCEPT ![hubcur] = Append(@, CurrentLocations(locations))]
            /\ nsnap' = [nsnap EXCEPT ![hubcur] = @ + 1]
            /\ hubpc' = "notify"
            /\ UNCHANGED closed
       ELSE \* default: close(client.Send); the client stays in h.clients
            /\ closed' = [closed EXCEPT ![hubcur] = TRUE]
            /\ hubpc' = "notify"
            /\ UNCHANGED <<Send, nsnap>>
    /\ UNCHANGED <<clients, locations, Username, hubcur, hubmsg, hpc, rpc, wpc,
                   pending, nupd, wire, stored, view>>

\* h.broadcastMessage(user_connected), called by Hub.run itself
HubNotifyConnected ==
    /\ hubpc = "notify"
    /\ IF ReceiverParked
       THEN /\ hubpc' = "broadcast"
            /\ hubmsg' = UserConnected(Username[hubcur])
       ELSE \* default: "Broadcast channel is full"
            /\ hubpc' = "select"
            /\ UNCHANGED hubmsg
    /\ hubcur' = NoClient
    /\ UNCHANGED <<clients, locations, Username, Send, closed, hpc, rpc, wpc,
                   pending, nupd, wire, nsnap, stored, view>>

\* `case client := <-h.unregister:` the rendezvous with readPump's deferred
\* send; readPump then closes the connection and returns.
HubRecvUnregister(c) ==
    /\ ReceiverParked
    /\ rpc[c] = "unregister"
    /\ hubpc' = "unregister"
    /\ hubcur' = c
    /\ rpc' = [rpc EXCEPT ![c] = "done"]
    /\ UNCHANGED <<clients, locations, Username, Send, closed, hubmsg, hpc, wpc,
                   pending, nupd, wire, nsnap, stored, view>>

\* Variant of HubUnregister without the `if _, ok := h.clients[client]; ok`
\* test: the body runs for every client received.
HubUnregister_NoCheck ==
    /\ hubpc = "unregister"
    /\ IF closed[hubcur]
       THEN /\ hubpc' = "panic"
            /\ UNCHANGED <<clients, closed, locations, hubmsg>>
       ELSE /\ clients' = clients \ {hubcur}
            /\ closed' = [closed EXCEPT ![hubcur] = TRUE]
            /\ locations' = MapDelete(locations, Username[hubcur])
            /\ hubpc' = "select"
            /\ UNCHANGED hubmsg
    /\ hubcur' = NoClient
    /\ UNCHANGED <<Username, Send, hpc, rpc, wpc, pending, nupd, wire, nsnap, stored, view>>

\* Variant of HubUnregister that resets the whole store (`h.locations =
\* make(...)`) in place of deleting one key.
HubUnregister_ClearStore ==
    /\ hubpc = "unregister"
    /\ IF hubcur \in clients
       THEN /\ clients' = clients \ {hubcur}
            /\ closed' = [closed EXCEPT ![hubcur] = TRUE]
            /\ locations' = EmptyMap
            /\ hubpc' = "select"
            /\ UNCHANGED hubmsg
       ELSE /\ hubpc' = "select"
            /\ UNCHANGED <<clients, closed, locations, hubmsg>>
    /\ hubcur' = NoClient
    /\ UNCHANGED <<Username, Send, hpc, rpc, wpc, pending, nupd, wire, nsnap, stored, view>>

\* Variant of HubUnregister that keeps the location while another active
\* client has the same username.
HubUnregister_KeepIfShared ==
    /\ hubpc = "unregister"
    /\ IF hubcur \in clients
       THEN /\ clients' = clients \ {hubcur}
            /\ closed' = [closed EXCEPT ![hubcur] = TRUE]
            /\ locations' =
                 IF \E d \in clients \ {hubcur} : Username[d] = Username[hubcur]
                 THEN locations
                 ELSE MapDelete(locations, Username[hubcur])
            /\ hubpc' = "select"
            /\ UNCHANGED hubmsg
       ELSE /\ hubpc' = "select"
            /\ UNCHANGED <<clients, closed, locations, hubmsg>>
    /\ hubcur' = NoClient
    /\ UNCHANGED <<Username, Send, hpc, rpc, wpc, pending, nupd, wire, nsnap, stored, view>>

\* Variant of HubUnregister without `close(client.Send)`.
HubUnregister_NoClose ==
    /\ hubpc = "unregister"
    /\ IF hubcur \in clients
       THEN /\ clients' = clients \ {hubcur}
            /\ locations' = MapDelete(locations, Username[hubcur])
            /\ hubpc' = "select"
            /\ UNCHANGED <<closed, hubmsg>>
       ELSE /\ hubpc' = "select"
            /\ UNCHANGED <<clients, closed, locations, hubmsg>>
    /\ hubcur' = NoClient
    /\ UNCHANGED <<Username, Send, hpc, rpc, wpc, pending, nupd, wire, nsnap, stored, view>>

\* Variant of HubUnregister whose broadcastMessage is a plain, blocking
\* `h.broadcast <- data`: it needs Hub.run to be receiving in its select.
HubUnregister_BlockingNotify ==
    /\ hubpc = "unregister"
    /\ IF hubcur \in clients
       THEN /\ ReceiverParked
            /\ clients' = clients \ {hubcur}
            /\ closed' = [closed EXCEPT ![hubcur] = TRUE]
            /\ locations' = MapDelete(locations, Username[hubcur])
            /\ hubpc' = "broadcast"
            /\ hubmsg' = UserDisconnected(Username[hubcur])
       ELSE /\ hubpc' = "select"
            /\ UNCHANGED <<clients, closed, locations, hubmsg>>
    /\ hubcur' = NoClient
    /\ UNCHANGED <<Username, Send, hpc, rpc, wpc, pending, nupd, wire, nsnap, stored, view>>

\* the body of the unregister case, under h.mutex.Lock()
HubUnregister ==
    /\ hubpc = "unregister"
    /\ IF hubcur \in clients
       THEN IF closed[hubcur]
            THEN \* close of a closed channel
                 /\ hubpc' = "panic"
                 /\ UNCHANGED <<clients, closed, locations, hubmsg>>
            ELSE /\ clients' = clients \ {hubcur}
                 /\ closed' = [closed EXCEPT ![hubcur] = TRUE]
                 /\ locations' = MapDelete(locations, Username[hubcur])
                 /\ IF ReceiverParked
                    THEN /\ hubpc' = "broadcast"
                         /\ hubmsg' = UserDisconnected(Username[hubcur])
                    ELSE \* default: "Broadcast channel is full"
                         /\ hubpc' = "select"
                         /\ UNCHANGED hubmsg
       ELSE /\ hubpc' = "select"
            /\ UNCHANGED <<clients, closed, locations, hubmsg>>
    /\ hubcur' = NoClient
    /\ UNCHANGED <<Username, Send, hpc, rpc, wpc, pending, nupd, wire, nsnap, stored, view>>

\* Variant of HubBroadcast with a plain, blocking `client.Send <- message`:
\* the fan-out waits until every queue has room.
HubBroadcast_Blocking ==
    /\ hubpc = "broadcast"
    /\ \A c \in clients : CanSend(c)
    /\ Send' = [c \in Clients |-> IF c \in clients THEN Append(Send[c], hubmsg) ELSE Send[c]]
    /\ hubpc' = "select"
    /\ hubmsg' = NoMessage
    /\ UNCHANGED <<clients, closed, locations, Username, hubcur, hpc, rpc, wpc,
                   pending, nupd, wire, nsnap, stored, view>>

\* Variant of HubBroadcast with an empty default branch: the envelope is
\* dropped for a full queue, the session is kept.
HubBroadcast_DropOnly ==
    /\ hubpc = "broadcast"
    /\ Send' = [c \in Clients |->
                  IF c \in clients /\ CanSend(c) THEN Append(Send[c], hubmsg) ELSE Send[c]]
    /\ hubpc' = "select"
    /\ hubmsg' = NoMessage
    /\ UNCHANGED <<clients, closed, locations, Username, hubcur, hpc, rpc, wpc,
                   pending, nupd, wire, nsnap, stored, view>>

\* Variant of HubBroadcast whose default branch also leaves the loop: once a
\* full queue is met, the sessions not yet visited miss the envelope.
HubBroadcast_AbortOnFull ==
    /\ hubpc = "broadcast"
    /\ IF \E c \in clients : ~CanSend(c)
       THEN /\ closed' = [c \in Clients |->
                            IF c \in clients /\ ~CanSend(c) THEN TRUE ELSE closed[c]]
            /\ clients' = {c \in clients : CanSend(c)}
            /\ UNCHANGED Send
       ELSE /\ Send' = [c \in Clients |->
                          IF c \in clients THEN Append(Send[c], hubmsg) ELSE Send[c]]
            /\ UNCHANGED <<clients, closed>>
    /\ hubpc' = "select"
    /\ hubmsg' = NoMessage
    /\ UNCHANGED <<locations, Username, hubcur, hpc, rpc, wpc, pending, nupd,
                   wire, nsnap, stored, view>>

\* Variant of HubBroadcast whose default branch closes the full queue but
\* leaves the client in h.clients.
HubBroadcast_CloseOnly ==
    /\ hubpc = "broadcast"
    /\ IF \E c \in clients : closed[c]
       THEN \* send on a closed channel
            /\ hubpc' = "panic"
            /\ UNCHANGED <<Send, closed>>
       ELSE /\ Send' = [c \in Clients |->
                          IF c \in clients /\ CanSend(c)
                          THEN Append(Send[c], hubmsg) ELSE Send[c]]
            /\ closed' = [c \in Clients |->
                          IF c \in clients /\ ~CanSend(c) THEN TRUE ELSE closed[c]]
            /\ hubpc' = "select"
    /\ hubmsg' = NoMessage
    /\ UNCHANGED <<clients, locations, Username, hubcur, hpc, rpc, wpc, pending,
                   nupd, wire, nsnap, stored, view>>

\* the body of the broadcast case: the fan-out, under h.mutex.RLock()
HubBroadcast ==
    /\ hubpc = "broadcast"
    /\ IF \E c \in clients : closed[c]
       THEN \* send on a closed channel
            /\ hubpc' = "panic"
            /\ UNCHANGED <<clients, Send, closed>>
       ELSE /\ Send' = [c \in Clients |->
                          IF c \in clients /\ CanSend(c)
                          THEN Append(Send[c], hubmsg) ELSE Send[c]]
            /\ closed' = [c \in Clients |->
                          IF c \in clients /\ ~CanSend(c) THEN TRUE ELSE closed[c]]
            /\ clients' = {c \in clients : CanSend(c)}
            /\ hubpc' = "select"
    /\ hubmsg' = NoMessage
    /\ UNCHANGED <<locations, Username, hubcur, hpc, rpc, wpc, pending, nupd,
                   wire, nsnap, stored, view>>

\* ------------------------------------------------------------ readPump
\* Variant of Sanitize without `locationData.Username = c.Username`.
Sanitize_AsSent(c, d) == d

\* The record readPump hands to updateLocation: the decoded data with
\* Username overwritten by the client's own.
Sanitize(c, d) == [d EXCEPT !.username = Username[c]]

\* c.Conn.Close() has run (in writePump; readPump closes it as it returns)
ConnClosed(c) == wpc[c] = "done" \/ rpc[c] = "done"

\* Variant of ReadMessage that does not test the error of the second
\* json.Unmarshal: a location_update whose data does not decode is passed on.
ReadMessage_NoPayloadCheck(c, f) ==
    /\ rpc[c] = "read"
    /\ ~ConnClosed(c)
    /\ IF f.json /\ f.type = "location_update"
       THEN /\ nupd < MaxUpdates
            /\ locations' = MapPut(locations, Username[c], Sanitize(c, f.data))
            /\ pending' = [pending EXCEPT ![c] = Sanitize(c, f.data)]
            /\ rpc' = [rpc EXCEPT ![c] = "broadcast"]
            /\ nupd' = nupd + 1
            /\ stored' = stored \cup {<<Username[c], locations'[Username[c]]>>}
            /\ UNCHANGED <<clients, Username, Send, closed, hubpc, hubcur, hubmsg,
                           hpc, wpc, wire, nsnap, view>>
       ELSE UNCHANGED vars

\* Variant of ReadMessage with `break` in place of `continue` after a failed
\* json.Unmarshal of the envelope.
ReadMessage_BreakOnBadEnvelope(c, f) ==
    /\ rpc[c] = "read"
    /\ ~ConnClosed(c)
    /\ IF ~f.json
       THEN /\ rpc' = [rpc EXCEPT ![c] = "unregister"]
            /\ UNCHANGED <<clients, locations, Username, Send, closed, hubpc, hubcur,
                           hubmsg, hpc, wpc, pending, nupd, wire, nsnap, stored, view>>
       ELSE IF f.type = "location_update" /\ f.payloadok
       THEN /\ nupd < MaxUpdates
            /\ locations' = MapPut(locations, Username[c], Sanitize(c, f.data))
            /\ pending' = [pending EXCEPT ![c] = Sanitize(c, f.data)]
            /\ rpc' = [rpc EXCEPT ![c] = "broadcast"]
            /\ nupd' = nupd + 1
            /\ stored' = stored \cup {<<Username[c], locations'[Username[c]]>>}
            /\ UNCHANGED <<clients, Username, Send, closed, hubpc, hubcur, hubmsg,
                           hpc, wpc, wire, nsnap, view>>
       ELSE UNCHANGED vars

\* One iteration of the read loop on a received frame. A frame that is not a
\* well-formed location_update is skipped; otherwise updateLocation stores the
\* record under h.mutex.Lock() and goes on to broadcastMessage.
ReadMessage(c, f) ==
    /\ rpc[c] = "read"
    /\ ~ConnClosed(c)
    /\ IF f.json /\ f.type = "location_update" /\ f.payloadok
       THEN /\ nupd < MaxUpdates
            /\ locations' = MapPut(locations, Username[c], Sanitize(c, f.data))
            /\ pending' = [pending EXCEPT ![c] = Sanitize(c, f.data)]
            /\ rpc' = [rpc EXCEPT ![c] = "broadcast"]
            /\ nupd' = nupd + 1
            /\ stored' = stored \cup {<<Username[c], locations'[Username[c]]>>}
            /\ UNCHANGED <<clients, Username, Send, closed, hubpc, hubcur, hubmsg,
                           hpc, wpc, wire, nsnap, view>>
       ELSE UNCHANGED vars

\* Variant of UpdateBroadcast that builds the envelope from the record it was
\* given but reads the latitude back from the store after the lock was
\* released.
UpdateBroadcast_Reread(c) ==
    /\ rpc[c] = "broadcast"
    /\ IF ReceiverParked
       THEN /\ hubpc' = "broadcast"
            /\ hubmsg' = LocationUpdate(
                    IF Username[c] \in DOMAIN locations
                    THEN [pending[c] EXCEPT
                            !.latitude = locations[Username[c]].latitude]
                    ELSE pending[c])
       ELSE \* default: "Broadcast channel is full"
            UNCHANGED <<hubpc, hubmsg>>
    /\ rpc' = [rpc EXCEPT ![c] = "read"]
    /\ pending' = [pending EXCEPT ![c] = NoData]
    /\ UNCHANGED <<clients, locations, Username, Send, closed, hubcur, hpc, wpc, nupd,
                   wire, nsnap, stored, view>>

\* h.broadcastMessage(location_update), the tail of updateLocation
UpdateBroadcast(c) ==
    /\ rpc[c] = "broadcast"
    /\ IF ReceiverParked
       THEN /\ hubpc' = "broadcast"
            /\ hubmsg' = LocationUpdate(pending[c])
       ELSE \* default: "Broadcast channel is full"
            UNCHANGED <<hubpc, hubmsg>>
    /\ rpc' = [rpc EXCEPT ![c] = "read"]
    /\ pending' = [pending EXCEPT ![c] = NoData]
    /\ UNCHANGED <<clients, locations, Username, Send, closed, hubcur, hpc, wpc, nupd,
                   wire, nsnap, stored, view>>

\* ReadMessage returns an error: break; the deferred function blocks in
\* `hub.unregister <- c`.
ReadError(c) ==
    /\ rpc[c] = "read"
    /\ rpc' = [rpc EXCEPT ![c] = "unregister"]
    /\ UNCHANGED <<clients, locations, Username, Send, closed, hubpc, hubcur, hubmsg,
                   hpc, wpc, pending, nupd, wire, nsnap, stored, view>>

\* ----------------------------------------------------------- writePump
\* Variant of WriteFrame that writes only the newest queued frame and drops
\* the ones before it.
WriteFrame_Coalesce(c) ==
    /\ wpc[c] = "run"
    /\ Send[c] # << >>
    /\ wire' = [wire EXCEPT ![c] = Send[c][Len(Send[c])]]
    /\ Send' = [Send EXCEPT ![c] = << >>]
    /\ UNCHANGED <<clients, locations, Username, closed, hubpc, hubcur, hubmsg,
                   hpc, rpc, wpc, pending, nupd, nsnap, stored, view>>

\* `message, ok := <-c.Send` with ok: write the frame to the connection
WriteFrame(c) ==
    /\ wpc[c] = "run"
    /\ Send[c] # << >>
    /\ wire' = [wire EXCEPT ![c] = Head(Send[c])]
    /\ Send' = [Send EXCEPT ![c] = Tail(@)]
    /\ UNCHANGED <<clients, locations, Username, closed, hubpc, hubcur, hubmsg,
                   hpc, rpc, wpc, pending, nupd, nsnap, stored, view>>

\* Variant of WriteClose without the `return`: the loop writes the close
\* frame and goes on receiving from the closed channel.
WriteClose_NoReturn(c) ==
    /\ wpc[c] = "run"
    /\ Send[c] = << >>
    /\ closed[c]
    /\ wire' = [wire EXCEPT ![c] = CloseMessage]
    /\ UNCHANGED <<clients, locations, Username, Send, closed, hubpc, hubcur, hubmsg,
                   hpc, rpc, wpc, pending, nupd, nsnap, stored, view>>

\* `!ok`: the channel is closed and drained; write the close frame, return
WriteClose(c) ==
    /\ wpc[c] = "run"
    /\ Send[c] = << >>
    /\ closed[c]
    /\ wire' = [wire EXCEPT ![c] = CloseMessage]
    /\ wpc' = [wpc EXCEPT ![c] = "done"]
    /\ UNCHANGED <<clients, locations, Username, Send, closed, hubpc, hubcur, hubmsg,
                   hpc, rpc, pending, nupd, nsnap, stored, view>>

\* ------------------------------------------------------- specification
Next ==
    \/ \E c \in Arrivals, u \in Users : Accept(c, u)
    \/ \E c \in Clients : HubRecvRegister(c)
    \/ HubAddClient
    \/ HubSendCurrentLocations
    \/ HubNotifyConnected
    \/ \E c \in Clients : HubRecvUnregister(c)
    \/ HubUnregister
    \/ HubBroadcast
    \/ \E c \in Clients, f \in Frames(nupd + 1) : ReadMessage(c, f)
    \/ \E c \in Clients : UpdateBroadcast(c)
    \/ \E c \in Clients : ReadError(c)
    \/ \E c \in Clients : WriteFrame(c)
    \/ \E c \in Clients : WriteClose(c)

Spec == Init /\ [][Next]_vars

\* Scheduling of the goroutines.  Hub.run and the two pumps of a connection
\* each keep running while they have a step to take; the select of Hub.run
\* picks among its ready cases at random, so a readPump blocked in
\* `hub.unregister <- c` is received from after finitely many rounds; a
\* connection closed by the deferred c.Conn.Close() of writePump makes the
\* pending c.Conn.ReadMessage() of readPump return an error.  A peer closing
\* its connection (ReadError on an open connection) is not forced.
HubStep == HubUnregister \/ HubBroadcast

ReadPumpStep(c) == UpdateBroadcast(c) \/ (ConnClosed(c) /\ ReadError(c))

WritePumpStep(c) == WriteFrame(c) \/ WriteClose(c)

Fairness ==
    /\ WF_vars(HubStep)
    /\ \A c \in Arrivals :
          /\ SF_vars(HubRecvUnregister(c))
          /\ WF_vars(ReadPumpStep(c))
          /\ WF_vars(WritePumpStep(c))

\* Progress is checked on runs that start once the connections of Arrivals
\* are registered, each under a username of its own, with the store and the
\* queues still empty and the Hub back in its select (a state reached from
\* Init by two Accept / register rounds).
InitFair ==
    /\ clients = Arrivals
    /\ locations = EmptyMap
    /\ Username = [c \in Clients |->
                     IF c = "c1" THEN "alice" ELSE IF c = "c2" THEN "bob" ELSE "none"]
    /\ Send = [c \in Clients |-> << >>]
    /\ closed = [c \in Clients |-> FALSE]
    /\ hubpc = "select"
    /\ hubcur = NoClient
    /\ hubmsg = NoMessage
    /\ hpc = [c \in Clients |-> IF c \in Arrivals THEN "done" ELSE "idle"]
    /\ rpc = [c \in Clients |-> IF c \in Arrivals THEN "read" ELSE "none"]
    /\ wpc = [c \in Clients |-> IF c \in Arrivals THEN "run" ELSE "none"]
    /\ pending = [c \in Clients |-> NoData]
    /\ nupd = 0
    /\ wire = [c \in Clients |-> NoMessage]
    /\ nsnap = [c \in Clients |-> 0]
    /\ stored = {}
    /\ view = [c \in Clients |-> EmptyMap]

NextFair ==
    \/ \E c \in Clients : HubRecvUnregister(c)
    \/ HubUnregister
    \/ HubBroadcast
    \/ \E c \in Clients, f \in Frames(nupd + 1) : ReadMessage(c, f)
    \/ \E c \in Clients : UpdateBroadcast(c)
    \/ \E c \in Clients : ReadError(c)
    \/ \E c \in Clients : WriteFrame(c)
    \/ \E c \in Clients : WriteClose(c)

SpecFair == InitFair /\ [][NextFair]_vars /\ Fairness

\* Hand-offs are checked on runs that start with c1 registered as "alice"
\* and Hub.run in its select; c2 connects as "bob" during the run.
InitHandoff ==
    /\ clients = {"c1"}
    /\ locations = EmptyMap
    /\ Username = [c \in Clients |-> IF c = "c1" THEN "alice" ELSE "none"]
    /\ Send = [c \in Clients |-> << >>]
    /\ closed = [c \in Clients |-> FALSE]
    /\ hubpc = "select"
    /\ hubcur = NoClient
    /\ hubmsg = NoMessage
    /\ hpc = [c \in Clients |-> IF c = "c1" THEN "done" ELSE "idle"]
    /\ rpc = [c \in Clients |-> IF c = "c1" THEN "read" ELSE "none"]
    /\ wpc = [c \in Clients |-> IF c = "c1" THEN "run" ELSE "none"]
    /\ pending = [c \in Clients |-> NoData]
    /\ nupd = 0
    /\ wire = [c \in Clients |-> NoMessage]
    /\ nsnap = [c \in Clients |-> 0]
    /\ stored = {}
    /\ view = [c \in Clients |-> EmptyMap]

NextHandoff ==
    \/ Accept("c2", "bob")
    \/ \E c \in Clients : HubRecvRegister(c)
    \/ HubAddClient
    \/ HubSendCurrentLocations
    \/ HubNotifyConnected
    \/ \E c \in Clients : HubRecvUnregister(c)
    \/ HubUnregister
    \/ HubBroadcast
    \/ \E c \in Clients, f \in Frames(nupd + 1) : ReadMessage(c, f)
    \/ \E c \in Clients : UpdateBroadcast(c)
    \/ \E c \in Clients : ReadError(c)
    \/ \E c \in Clients : WriteFrame(c)
    \/ \E c \in Clients : WriteClose(c)

\* A step of Hub.run inside one of its three cases
HubCaseStep ==
    \/ HubAddClient
    \/ HubSendCurrentLocations
    \/ HubNotifyConnected
    \/ HubUnregister
    \/ HubBroadcast

\* Hub.run keeps running, and its select picks among the ready cases at
\* random: a sender blocked on h.register or h.unregister is taken after
\* finitely many rounds.
FairnessHandoff ==
    /\ WF_vars(HubCaseStep)
    /\ \A c \in Arrivals :
          /\ SF_vars(HubRecvRegister(c))
          /\ SF_vars(HubRecvUnregister(c))

SpecHandoff == InitHandoff /\ [][NextHandoff]_vars /\ FairnessHandoff

\* ------------------------------------------------------- the web client
\* ws.onmessage of the web client: the `users` map after message m
UsersAfter(v, m) ==
    IF m.type = "location_update" THEN MapPut(v, m.data.username, m.data)
    ELSE IF m.type = "current_locations" THEN m.data
    ELSE IF m.type = "user_disconnected" THEN MapDelete(v, m.data.username)
    ELSE v

\* writePump writes a frame and the web client at the other end of the
\* connection handles it
DeliverFrame(c) ==
    /\ wpc[c] = "run"
    /\ Send[c] # << >>
    /\ wire' = [wire EXCEPT ![c] = Head(Send[c])]
    /\ view' = [view EXCEPT ![c] = UsersAfter(@, Head(Send[c]))]
    /\ Send' = [Send EXCEPT ![c] = Tail(@)]
    /\ UNCHANGED <<clients, locations, Username, closed, hubpc, hubcur, hubmsg,
                   hpc, rpc, wpc, pending, nupd, nsnap, stored>>

\* The server together with a web client on every connection, started as
\* InitHandoff: c1 is registered as "alice", c2 connects as "bob".
NextView ==
    \/ Accept("c2", "bob")
    \/ \E c \in Clients : HubRecvRegister(c)
    \/ HubAddClient
    \/ HubSendCurrentLocations
    \/ HubNotifyConnected
    \/ \E c \in Clients : HubRecvUnregister(c)
    \/ HubUnregister
    \/ HubBroadcast
    \/ \E c \in Clients, f \in Frames(nupd + 1) : ReadMessage(c, f)
    \/ \E c \in Clients : UpdateBroadcast(c)
    \/ \E c \in Clients : ReadError(c)
    \/ \E c \in Clients : DeliverFrame(c)
    \/ \E c \in Clients : WriteClose(c)

SpecView == InitHandoff /\ [][NextView]_vars

\* Saturation scenario, started from a state the program reaches from Init:
\* the three connections are registered, the store holds one location of
\* "alice" (Position(0), reported before the scenario starts), c3 has been
\* sent the snapshot and has not written it out yet, every other queue is
\* empty and the Hub is back in its select. From there on the pumps and the
\* Hub run freely.
InitIso ==
    /\ clients = Clients
    /\ locations = MapPut(EmptyMap, "alice", LocationData("alice", Position(0)))
    /\ Username = [c \in Clients |-> IF c = "c2" THEN "bob" ELSE "alice"]
    /\ Send = [c \in Clients |->
                 IF c = "c3" THEN << CurrentLocations(locations) >> ELSE << >>]
    /\ closed = [c \in Clients |-> FALSE]
    /\ hubpc = "select"
    /\ hubcur = NoClient
    /\ hubmsg = NoMessage
    /\ hpc = [c \in Clients |-> "done"]
    /\ rpc = [c \in Clients |-> "read"]
    /\ wpc = [c \in Clients |-> "run"]
    /\ pending = [c \in Clients |-> NoData]
    /\ nupd = 0
    /\ wire = [c \in Clients |-> NoMessage]
    /\ nsnap = [c \in Clients |-> IF c = "c3" THEN 1 ELSE 0]
    /\ stored = {<<"alice", LocationData("alice", Position(0))>>}
    /\ view = [c \in Clients |-> EmptyMap]

NextIso ==
    \/ \E c \in Clients : HubRecvUnregister(c)
    \/ HubUnregister
    \/ HubBroadcast
    \/ \E c \in Clients, f \in Frames(nupd + 1) : ReadMessage(c, f)
    \/ \E c \in Clients : UpdateBroadcast(c)
    \/ \E c \in Clients : ReadError(c)
    \/ \E c \in Clients : WriteFrame(c)
    \/ \E c \in Clients : WriteClose(c)

SpecIso == InitIso /\ [][NextIso]_vars

\* ================================================================ claims
\* Steps of Hub.run, recognised by its position.
FanoutStep == hubpc = "broadcast" /\ hubpc' # "broadcast"

RegisterNotifyStep == hubpc = "notify" /\ hubpc' # "notify"

UnregisterStep == hubpc = "unregister" /\ hubpc' # "unregister"

SnapshotStep == hubpc = "snapshot" /\ hubpc' # "snapshot"

\* The Hub closed the queue of c while c's read pump is still running: c was
\* not unregistered, it was evicted by a fan-out that found its queue full.
Evicted(c) ==
    /\ closed[c]
    /\ c \notin clients
    /\ rpc[c] \in {"read", "broadcast", "unregister"}

Last(q) == q[Len(q)]

\* C1: when the Hub finishes processing Register for a session with identity
\* u, a user_connected envelope carrying u has been enqueued for every active
\* session, or the Hub is about to fan that envelope out.
C1_RegisterNotifiesAll ==
    [][RegisterNotifyStep =>
         \/ hubpc' = "broadcast" /\ hubmsg' = UserConnected(Username[hubcur])
         \/ \A c \in clients :
              Send'[c] = Append(Send[c], UserConnected(Username[hubcur]))]_vars

\* C2: every UpdateLocation(u, r) overwrites the store entry of u with r, its
\* broadcast reaches the Hub as a location_update carrying r, and the fan-out
\* of a location_update enqueues it for every active session with room; no
\* applied update is left without a broadcast.
C2_UpdateStoredAndBroadcast ==
    [][/\ \A c \in Clients :
            (rpc[c] = "read" /\ rpc'[c] = "broadcast")
              => /\ Username[c] \in DOMAIN locations'
                 /\ locations'[Username[c]] = pending'[c]
       /\ \A c \in Clients :
            (rpc[c] = "broadcast" /\ rpc'[c] = "read")
              => hubpc' = "broadcast" /\ hubmsg' = LocationUpdate(pending[c])
       /\ (FanoutStep /\ hubmsg.type = "location_update")
              => \A c \in clients :
                   Len(Send[c]) < SendCap => Send'[c] = Append(Send[c], hubmsg)]_vars

\* C3: when the Hub processes Unregister for an active session with identity
\* u, a user_disconnected envelope carrying u has been enqueued for every
\* session that remains active, or the Hub is about to fan that envelope out.
C3_UnregisterNotifiesRest ==
    [][(UnregisterStep /\ hubcur \in clients) =>
         \/ hubpc' = "broadcast" /\ hubmsg' = UserDisconnected(Username[hubcur])
         \/ \A c \in clients' :
              Send'[c] = Append(Send[c], UserDisconnected(Username[hubcur]))]_vars

\* A registered session that is no longer in the active set.
HasLeft(c) == hpc[c] = "done" /\ c \notin clients /\ closed[c]

\* C4 (its second clause, which the claimed equivalence implies): no key u
\* survives in the PresenceStore once every session with identity u has left
\* the active set, by unregistration or by eviction.
C4_NoKeySurvivesItsSessions ==
    \A u \in DOMAIN locations :
        \E c \in Clients : Username[c] = u /\ ~HasLeft(c)

\* C5: no broadcast blocks on a subscriber: whatever the fill level of the
\* queues, the fan-out and the snapshot send can take their step at once,
\* and the fan-out returns the Hub to its select.
C5_FanoutNeverBlocks ==
    /\ hubpc = "broadcast" => ENABLED HubBroadcast
    /\ hubpc = "snapshot" => ENABLED HubSendCurrentLocations
    /\ hubpc # "panic"

C5_Witness ==
    /\ hubpc = "broadcast"
    /\ \E c \in clients : Len(Send[c]) = SendCap /\ wpc[c] = "run"

\* C6: in a fan-out, a session whose queue already holds SendCap frames does
\* not get the envelope; its queue is closed and it is removed from the
\* active set in that same step.
C6_FullQueueEvicted ==
    [][FanoutStep =>
         \A c \in clients :
            Len(Send[c]) = SendCap
              => Send'[c] = Send[c] /\ closed'[c] /\ c \notin clients']_vars

C6_Witness ==
    \E c \in Clients : Evicted(c) /\ Len(Send[c]) = SendCap /\ hubpc = "select"

\* C7: in every fan-out, the sessions whose queue is full are removed, and
\* every session with room stays active with its queue open and gets the
\* envelope appended exactly once; its earlier frames are untouched.
C7_SaturationIsolated ==
    [][FanoutStep =>
         /\ \A x \in clients : Len(Send[x]) = SendCap => x \notin clients'
         /\ \A y \in clients :
              Len(Send[y]) < SendCap
                => /\ y \in clients'
                   /\ ~closed'[y]
                   /\ Send'[y] = Append(Send[y], hubmsg)]_vars

\* X has been evicted with a full queue, and the healthy Y and Z hold, as
\* their newest frame, a location_update fanned out after X's eviction.
C7_Witness ==
    \E x, y, z \in Clients :
        /\ x # y /\ y # z /\ x # z
        /\ Evicted(x) /\ Len(Send[x]) = SendCap
        /\ {y, z} \subseteq clients
        /\ Send[y] # << >> /\ Send[z] # << >>
        /\ Last(Send[y]) = Last(Send[z])
        /\ Last(Send[y]).type = "location_update"
        /\ Last(Send[x]).type = "location_update"
        /\ Last(Send[y]).data.timestamp > Last(Send[x]).data.timestamp + 1000

\* C8: a session leaves the active set only together with the closing of its
\* (until then open) queue and the deletion of the store entry of its
\* identity, whether it is unregistered or evicted.
C8_DestroyedWithAllEffects ==
    [][\A c \in clients :
         c \notin clients'
           => /\ ~closed[c] /\ closed'[c]
              /\ Username[c] \notin DOMAIN locations']_vars

\* C9: an Unregister for a session that is not in the active set changes
\* neither the active set nor the store nor any queue, and the Hub goes back
\* to its select without a user_disconnected to fan out.
C9_UnregisterIdempotent ==
    [][(UnregisterStep /\ hubcur \notin clients) =>
         /\ UNCHANGED <<clients, locations, Send, closed>>
         /\ hubpc' = "select"
         /\ hubmsg' = NoMessage]_vars

C9_Witness ==
    /\ hubpc = "unregister"
    /\ hubcur \notin clients
    /\ closed[hubcur]
    /\ ENABLED HubUnregister

\* C10: until its snapshot step is done the queue of a registering session is
\* empty, and when the store is non-empty that step leaves current_locations
\* as the only, hence first, frame of the queue: the join notice and every
\* other broadcast come after it.
C10_SnapshotFirst ==
    [][/\ hubpc \in {"register", "snapshot"} => Send[hubcur] = << >>
       /\ (SnapshotStep /\ DOMAIN locations # {})
            => Send'[hubcur] = << CurrentLocations(locations) >>]_vars

C10_Witness ==
    /\ hubpc = "notify"
    /\ Len(Send[hubcur]) = 1
    /\ Send[hubcur][1].type = "current_locations"
    /\ Send[hubcur][1].data = locations

\* The frame f is a location_update that decodes at both levels.
IsUpdateFrame(f) == f.json /\ f.type = "location_update" /\ f.payloadok

\* Steps of readPump of c: updateLocation has stored a record, and the
\* broadcastMessage that follows has run.
StoreStep(c) == rpc[c] = "read" /\ rpc'[c] = "broadcast"

UpdateBroadcastStep(c) == rpc[c] = "broadcast" /\ rpc'[c] = "read"

\* C12: whatever username a location_update frame carries, a session with
\* identity a writes the store only at key a, with a record whose username
\* is a; every other key is left as it was, and the record passed on to the
\* broadcast carries a.
C12_SpoofRejected ==
    [][/\ \A u \in DOMAIN locations : locations[u].username = u
       /\ \A c \in Clients :
            StoreStep(c)
              => /\ Username[c] \in DOMAIN locations'
                 /\ locations'[Username[c]].username = Username[c]
                 /\ pending'[c] = locations'[Username[c]]
                 /\ DOMAIN locations' = DOMAIN locations \cup {Username[c]}
                 /\ \A u \in DOMAIN locations \ {Username[c]} :
                        locations'[u] = locations[u]
       /\ \A c \in Clients :
            (UpdateBroadcastStep(c) /\ hubpc' = "broadcast" /\ hubpc = "select")
              => /\ hubmsg'.type = "location_update"
                 /\ hubmsg'.data.username = Username[c]]_vars

\* A session has just stored a record that a frame carrying another username
\* yields; there is no entry under that other username.
C12_Witness ==
    \E c \in Clients :
        /\ rpc[c] = "broadcast"
        /\ Username[c] \in DOMAIN locations
        /\ locations[Username[c]] = pending[c]
        /\ \E f \in Frames(nupd) :
              /\ IsUpdateFrame(f)
              /\ f.data.username # Username[c]
              /\ f.data.username \notin DOMAIN locations
              /\ Sanitize(c, f.data) = pending[c]

\* C13: the location_update frames of one identity reach every subscriber in
\* the order in which their records were written to the store (the n-th
\* record written carries timestamp 1000 * n): within a queue a later frame
\* for the same username never carries an older record, and a frame fanned
\* out for a username is never older than a frame already queued for it.
C13_UpdatesInStoreOrder ==
    \A c \in Clients :
        \A i, j \in 1..Len(Send[c]) :
            (/\ i < j
             /\ Send[c][i].type = "location_update"
             /\ Send[c][j].type = "location_update"
             /\ Send[c][i].data.username = Send[c][j].data.username)
              => Send[c][i].data.timestamp < Send[c][j].data.timestamp

\* The three kinds of frame the read loop does not act on.
UnparsableFrame == Frame(FALSE, "none", FALSE, NoData)

UnknownKindFrame == Frame(TRUE, "chat", TRUE, NoData)

BadPayloadFrame == Frame(TRUE, "location_update", FALSE, NoData)

C17_EnvelopeFailureIsFatal ==
    \A c \in Clients :
        /\ ~ENABLED (ReadMessage(c, UnparsableFrame) /\ rpc'[c] # "unregister")
        /\ ~ENABLED (ReadMessage(c, BadPayloadFrame) /\ rpc'[c] # "read")

\* C17 as amended: a frame whose envelope does not decode is skipped like one
\* whose payload does not decode: the session stays in its read loop and in
\* the active set, and no unregister request is made.
C17_DecodeFailureSkips ==
    \A c \in Clients :
        \A f \in {UnparsableFrame, BadPayloadFrame} :
            ~ENABLED (/\ ReadMessage(c, f)
                      /\ \/ rpc'[c] # "read"
                         \/ clients' # clients
                         \/ closed' # closed)

\* An active session is reading while a frame with an undecodable envelope
\* may arrive.
C17_Witness ==
    \E c \in clients :
        /\ rpc[c] = "read"
        /\ ~closed[c]
        /\ ENABLED ReadMessage(c, UnparsableFrame)

\* The receive of readPump of x has failed.
ReadErrorStep(x) == rpc[x] = "read" /\ rpc'[x] = "unregister"

\* C18: a failed receive of session X and the Unregister it triggers touch
\* no other session: every other session keeps its place in the active set,
\* its queue stays open with its frames, every store entry of another
\* identity is unchanged, and the Hub is back in its select.
C18_FailureIsLocal ==
    [][\A x \in Clients :
         (ReadErrorStep(x) \/ (UnregisterStep /\ hubcur = x))
           => /\ \A y \in Clients \ {x} :
                   /\ y \in clients <=> y \in clients'
                   /\ closed'[y] = closed[y]
                   /\ Send'[y] = Send[y]
              /\ \A u \in DOMAIN locations \ {Username[x]} :
                   u \in DOMAIN locations' /\ locations'[u] = locations[u]
              /\ UnregisterStep => hubpc' = "select"]_vars

\* X has been unregistered after a failed receive; Y, of another identity, is
\* still active with an open queue and its store entry, and the Hub is in its
\* select.
C18_Witness ==
    \E x, y \in Clients :
        /\ rpc[x] = "done" /\ closed[x] /\ x \notin clients
        /\ Username[x] \notin DOMAIN locations
        /\ y \in clients /\ ~closed[y]
        /\ Username[y] # Username[x]
        /\ Username[y] \in DOMAIN locations
        /\ hubpc = "select"

\* Steps of the register case: from the receive of the client up to the end
\* of the case.
RegisterStep == hubpc \in {"register", "snapshot", "notify"} /\ hubpc' # hubpc

\* C19: registering a session under an identity an active session already
\* uses removes nobody from the active set and closes no queue; a fan-out
\* enqueues for both sessions alike; a store write leaves the writer's record
\* as the one record of the identity; and the Unregister of an active session
\* deletes the record of its identity, also while another session of that
\* identity is active.
C19_DuplicateIdentityCoexists ==
    [][/\ RegisterStep
            => /\ clients \subseteq clients'
               /\ (hubpc = "register" => hubcur \in clients')
               /\ closed' = closed
               /\ locations' = locations
       /\ FanoutStep
            => \A a, b \in clients :
                  (Username[a] = Username[b] /\ CanSend(a) /\ CanSend(b))
                    => /\ {a, b} \subseteq clients'
                       /\ Send'[a] = Append(Send[a], hubmsg)
                       /\ Send'[b] = Append(Send[b], hubmsg)
       /\ \A c \in Clients :
            StoreStep(c) => locations'[Username[c]] = pending'[c]
       /\ (UnregisterStep /\ hubcur \in clients)
            => Username[hubcur] \notin DOMAIN locations']_vars

\* Two sessions of one identity were active together; one has unregistered,
\* the other is still active with an open queue holding a location_update of
\* that identity, and the store has no record of the identity any more.
C19_Witness ==
    \E a, b \in Clients :
        /\ a # b
        /\ Username[a] = Username[b]
        /\ rpc[a] = "done" /\ a \notin clients /\ hubpc = "select"
        /\ b \in clients /\ ~closed[b]
        /\ Username[b] \notin DOMAIN locations
        /\ \E i \in 1..Len(Send[b]) :
              /\ Send[b][i].type = "location_update"
              /\ Send[b][i].data.username = Username[b]

\* C11: a session is handed a current_locations envelope at most once.  The
\* only step that enqueues one is the snapshot step of the session's own
\* registration; that step enqueues exactly one envelope carrying the whole
\* store as it is at that step when the store is non-empty, and enqueues
\* nothing when the store is empty.
GainsSnapshot(c) ==
    /\ Len(Send'[c]) > Len(Send[c])
    /\ Last(Send'[c]).type = "current_locations"

C11_SnapshotAtMostOnce ==
    [][/\ \A c \in Clients :
            /\ nsnap'[c] <= 1
            /\ nsnap'[c] # nsnap[c] => GainsSnapshot(c)
            /\ GainsSnapshot(c)
                 => /\ SnapshotStep /\ hubcur = c
                    /\ DOMAIN locations # {}
                    /\ nsnap[c] = 0 /\ nsnap'[c] = 1
       /\ SnapshotStep
            => IF DOMAIN locations = {}
               THEN Send' = Send /\ nsnap' = nsnap
               ELSE /\ Send' = [Send EXCEPT ![hubcur] =
                                  Append(@, CurrentLocations(locations))]
                    /\ locations' = locations]_vars

\* One session registered into a non-empty store and holds its snapshot as
\* the first frame; another registered into the empty store and never got one.
C11_Witness ==
    \E c, d \in Clients :
        /\ c # d
        /\ {c, d} \subseteq clients /\ hubpc = "select"
        /\ nsnap[c] = 1 /\ nsnap[d] = 0
        /\ Send[c] # << >>
        /\ Send[c][1] = CurrentLocations(locations)
        /\ DOMAIN locations # {}

\* C14: the outbound loop passes the frames of its queue to the connection
\* in enqueue order, one frame per write: the queue only grows at its tail
\* and only shrinks by its head, and the head taken is the frame written.
\* Nothing is enqueued after the close; the loop stops only on a closed and
\* drained queue, writing the close frame as its last write, and does
\* nothing afterwards.
Dequeues(c) == Len(Send'[c]) < Len(Send[c])
Enqueues(c) == Len(Send'[c]) > Len(Send[c])
WriterStops(c) == wpc[c] = "run" /\ wpc'[c] = "done"

C14_WritesInQueueOrder ==
    [][\A c \in Clients :
         /\ Dequeues(c)
              => /\ wpc[c] = "run" /\ wpc'[c] = "run"
                 /\ Send'[c] = Tail(Send[c])
                 /\ wire'[c] = Head(Send[c])
         /\ Enqueues(c)
              => /\ ~closed[c]
                 /\ Len(Send'[c]) = Len(Send[c]) + 1
                 /\ SubSeq(Send'[c], 1, Len(Send[c])) = Send[c]
                 /\ wire'[c] = wire[c]
         /\ WriterStops(c)
              => /\ closed[c] /\ Send[c] = << >>
                 /\ wire'[c] = CloseMessage
                 /\ Send'[c] = << >>
         /\ (~Dequeues(c) /\ ~WriterStops(c)) => wire'[c] = wire[c]
         /\ Len(Send'[c]) = Len(Send[c]) => Send'[c] = Send[c]
         /\ closed[c] => closed'[c]
         /\ wpc[c] = "done"
              => wpc'[c] = "done" /\ Send'[c] = << >> /\ wire'[c] = wire[c]]_vars

\* A queue was closed while it still held a frame enqueued before the close,
\* after the loop had already written an earlier, different frame.
C14_Witness ==
    \E c \in Clients :
        /\ wpc[c] = "run" /\ closed[c]
        /\ Len(Send[c]) = 2
        /\ wire[c] \notin {NoMessage, Send[c][1], Send[c][2]}

\* C20: every record a subscriber can observe was written whole to the store
\* under its own identity by an earlier updateLocation: this holds for the
\* record of every location_update that is in flight to the Hub, queued for
\* a session or written to a connection, for every entry of a snapshot, and
\* for every entry of the store itself.
WrittenWhole(r) == <<r.username, r>> \in stored

Observed(m) ==
    /\ m.type = "location_update" => WrittenWhole(m.data)
    /\ m.type = "current_locations"
         => \A u \in DOMAIN m.data :
               m.data[u].username = u /\ WrittenWhole(m.data[u])

C20_NoTornRecord ==
    /\ \A u \in DOMAIN locations :
          locations[u].username = u /\ WrittenWhole(locations[u])
    /\ Observed(hubmsg)
    /\ \A c \in Clients :
          /\ Observed(wire[c])
          /\ \A i \in 1..Len(Send[c]) : Observed(Send[c][i])
          /\ pending[c] # NoData => WrittenWhole(pending[c])

\* Two sessions of different identities have both stored a record, and a
\* third record has been stored since; a subscriber holds the update of the
\* other identity in its queue.
C20_Witness ==
    \E c, d \in Clients :
        /\ Username[c] # Username[d]
        /\ {Username[c], Username[d]} \subseteq DOMAIN locations
        /\ Cardinality(stored) >= 3
        /\ \E i \in 1..Len(Send[c]) :
              /\ Send[c][i].type = "location_update"
              /\ Send[c][i].data.username = Username[d]

\* C15: under fair scheduling a session whose read loop has seen its receive
\* fail, or whose queue the Hub has closed, eventually has both loops exited
\* and its connection released; from then on it stays that way and is not
\* in the active set.
Terminating(c) == rpc[c] = "unregister" \/ closed[c]

SessionClosed(c) == rpc[c] = "done" /\ wpc[c] = "done"

C15_SessionsReachClosed ==
    /\ \A c \in Arrivals : Terminating(c) ~> SessionClosed(c)
    /\ [][\A c \in Clients :
             SessionClosed(c)
               => /\ SessionClosed(c)'
                  /\ c \notin clients /\ c \notin clients'
                  /\ closed'[c]]_vars

\* A session that the Hub evicted on a full queue (its record is still in
\* the store, and no other connection uses its identity) has both loops
\* exited, the close frame being the last thing written.
C15_Witness ==
    \E c \in Clients :
        /\ SessionClosed(c)
        /\ wire[c] = CloseMessage
        /\ Username[c] \in DOMAIN locations
        /\ \A d \in Clients \ {c} : Username[d] # Username[c]

\* C21: a record appears in the store or changes only in the store step of
\* updateLocation, which writes the caller's record under the caller's
\* username and nothing else; a key disappears only in the unregister case,
\* and then it is the key of the client being unregistered; the register
\* case (adding the client, the snapshot, the notification) and the fan-out
\* leave the store as it is.
C21_OnlyUpdateLocationWrites ==
    [][/\ \A u \in DOMAIN locations' :
            (u \notin DOMAIN locations \/ locations'[u] # locations[u])
              => \E c \in Clients :
                    /\ StoreStep(c)
                    /\ Username[c] = u
                    /\ locations' = MapPut(locations, u, pending'[c])
       /\ \A u \in DOMAIN locations \ DOMAIN locations' :
            /\ UnregisterStep
            /\ hubcur \in clients
            /\ u = Username[hubcur]
            /\ locations' = MapDelete(locations, u)
       /\ (RegisterStep \/ FanoutStep \/ (hubpc = "select" /\ hubpc' = "register"))
            => locations' = locations]_vars

\* One session has updated and been unregistered, which took its record out
\* of the store; the record the other session wrote is still there.
C21_Witness ==
    \E c, d \in Clients :
        /\ rpc[c] = "done" /\ c \notin clients /\ hubpc = "select"
        /\ Username[c] \notin DOMAIN locations
        /\ \E r \in stored : r[1] = Username[c]
        /\ d \in clients
        /\ Username[d] \in DOMAIN locations
        /\ locations[Username[d]] \in {r[2] : r \in stored}

\* C22: a session's read loop does not act before its registration is
\* complete: no record is stored on behalf of a session while Hub.run is
\* still in the register case for that session, before it has added the
\* session to the active set and enqueued its snapshot.
Registering(c) == hubcur = c /\ hubpc \in {"register", "snapshot"}

C22_RegisteredBeforeInbound ==
    [][\A c \in Clients : StoreStep(c) => ~Registering(c)]_vars

\* C23: Hub.run never sends on a closed queue and never closes a queue
\* twice, so it never panics: when it is about to send the snapshot the
\* queue of the new client is open and empty, when it is about to fan out
\* every client of the active set has an open queue, and when it is about
\* to unregister a client that is still in the active set that client's
\* queue is open.
C23_HubNeverPanics ==
    /\ hubpc # "panic"
    /\ (hubpc = "snapshot" /\ DOMAIN locations # {})
         => ~closed[hubcur] /\ Send[hubcur] = << >>
    /\ hubpc = "broadcast" => \A c \in clients : ~closed[c]
    /\ (hubpc = "unregister" /\ hubcur \in clients) => ~closed[hubcur]

\* Hub.run is in the unregister case for a session whose queue an earlier
\* fan-out closed on overflow: the session is no longer in the active set.
C23_Witness ==
    /\ hubpc = "unregister"
    /\ closed[hubcur]
    /\ hubcur \notin clients
    /\ nsnap[hubcur] = 1

\* C24: once Hub.run has added a session to the active set, the session is
\* in the active set exactly when its queue is open; a queue is closed in
\* the very step that removes its session from the active set, and in no
\* other step.
RegistrationDone(c) == hpc[c] = "done" /\ ~(hubcur = c /\ hubpc = "register")

C24_ActiveIffQueueOpen ==
    /\ [](\A c \in Clients : RegistrationDone(c) => (c \in clients <=> ~closed[c]))
    /\ [][\A c \in Clients :
             (~closed[c] /\ closed'[c]) <=> (c \in clients /\ c \notin clients')]_vars

\* One session was unregistered and another was evicted on a full queue:
\* both are out of the active set with their queues closed, while Hub.run
\* is idle.
C24_Witness ==
    \E c, d \in Clients :
        /\ hubpc = "select"
        /\ Evicted(c)
        /\ rpc[d] = "done" /\ closed[d] /\ d \notin clients

\* C25: Hub.run never waits inside a case: whenever it is not in its select
\* it has a step it can take (its own broadcastMessage does not wait for a
\* receiver); and, under fair scheduling, a handler blocked in
\* `hub.register <- client` and a read loop blocked in `hub.unregister <- c`
\* are each eventually received from.
C25_NoDeadlock ==
    /\ [](hubpc # "select" => ENABLED HubCaseStep)
    /\ \A c \in Arrivals :
          /\ hpc[c] = "registering" ~> hpc[c] = "done"
          /\ rpc[c] = "unregister" ~> rpc[c] = "done"

\* Both hand-offs have had to wait: c2 has been received from the register
\* channel, and a read loop is blocked on the unregister channel while
\* Hub.run is inside the unregister case of the other session.
C25_Witness ==
    /\ hpc["c2"] = "done"
    /\ \E c \in Clients :
          /\ rpc[c] = "unregister"
          /\ hubpc = "unregister"
          /\ hubcur \notin {c, NoClient}
          /\ hubcur \in clients

\* C26: when nothing is in progress any more (Hub.run is in its select, no
\* read loop is between its store write and its broadcast or waiting to
\* unregister, no handler is waiting to register, every queue is drained),
\* the user map of the web client of every session that is still connected
\* and active equals the store.
Quiescent ==
    /\ hubpc = "select"
    /\ \A d \in Clients :
          /\ Send[d] = << >>
          /\ rpc[d] \notin {"broadcast", "unregister"}
          /\ hpc[d] # "registering"

C26_ViewConverges ==
    \A c \in Clients :
        (Quiescent /\ c \in clients /\ ~ConnClosed(c)) => view[c] = locations

====
